---- MODULE Spec2Model ----
(***************************************************************************)
(* Model of the pdfomania OCR server: the Flask /ocr token endpoint        *)
(* (server/main.py, repeated verbatim in server/server.py:140-179), the    *)
(* FastAPI /docaiify structural grouper (server/server.py:61-110) and the  *)
(* /normalize-docai flattening (server/server.py:181-232).                 *)
(*                                                                         *)
(* Strings whose content matters (word texts, element contents) are        *)
(* sequences of one-character strings, so that str.strip and " ".join are  *)
(* computed rather than assumed.  Normalized coordinates are floats in the *)
(* source; they are modelled in tenths (0.2 is 2), which keeps min and max.*)
(***************************************************************************)
EXTENDS Integers, Sequences, FiniteSets, TLC

VARIABLES
    TARGET_DPI,   \* main.py:15, process configuration
    request,      \* the request being handled
    pc,           \* position of the handler
    response,     \* what the client receives; status 0 = not answered yet
    image,        \* <<width, height>> of the working image
    data,         \* the OCR engine's word table for the current image
    idx,          \* docaiify: number of uploads already processed
    doc_pages,    \* docaiify: pages accumulated so far
    elements,     \* docaiify: elements of the page processed last
    page_number,  \* normalize_docai: page number of the current properties entry
    pages,        \* normalize_docai: PageInfo output list
    fields,       \* normalize_docai: Field output list
    props,        \* normalize_docai: the properties entries consumed so far
    nv,           \* _box_from_norm_vertices: argument
    box,          \* _box_from_norm_vertices: outcome
    engine_words  \* words the engine has returned while handling the request

vars == <<TARGET_DPI, request, pc, response, image, data, idx, doc_pages,
          elements, page_number, pages, fields, props, nv, box, engine_words>>

(***************************************************************************)
(* Bounds of the model.                                                    *)
(***************************************************************************)
MaxOcrWords == 2    \* words the engine returns to /ocr
MaxWords == 3       \* words the engine returns over one /docaiify request
MaxPages == 2       \* uploads of one /docaiify request
MaxVerts == 2       \* entries of a normalized_vertices list
MaxEntries == 2     \* properties entries of one /normalize-docai request
MaxItems == 2       \* key/value items over one /normalize-docai request

(***************************************************************************)
(* Program constants.                                                      *)
(***************************************************************************)
CONF_GATE == 50     \* main.py:72
CANVAS_DPI == 96    \* main.py:45

\* ------------------------------------------------------------------ helpers

Whitespace == {" "}

RECURSIVE lstrip(_)
lstrip(s) ==
    IF s = <<>> THEN <<>>
    ELSE IF Head(s) \in Whitespace THEN lstrip(Tail(s)) ELSE s

RECURSIVE rstrip(_)
rstrip(s) ==
    IF s = <<>> THEN <<>>
    ELSE IF s[Len(s)] \in Whitespace THEN rstrip(SubSeq(s, 1, Len(s) - 1)) ELSE s

\* str.strip()
strip(s) == rstrip(lstrip(s))

\* int(s) for the decimal strings the model uses
ParseInt(s) ==
    CASE s = "1" -> 1
      [] s = "2" -> 2
      [] s = "96" -> 96

Max2(a, b) == IF a >= b THEN a ELSE b

NoResponse == [status |-> 0, body |-> <<>>]

\* An unhandled exception: both frameworks answer 500 Internal Server Error.
ServerError == [status |-> 500, body |-> <<>>]

\* ----------------------------------------------- /ocr inputs (main.py)

Texts == { <<" ">>, <<"a">>, <<" ", "b", " ">> }

ConfStr(s) == [isStr |-> TRUE, s |-> s, n |-> 0]
ConfNum(n) == [isStr |-> FALSE, s |-> "", n |-> n]

\* conf column of the engine: the sentinel in its three spellings, and scores
Confs == { ConfStr(""), ConfStr("-1"), ConfNum(-1), ConfNum(49), ConfNum(50),
           ConfStr("96") }

Boxes == { [left |-> 0, top |-> 2, width |-> 3, height |-> 1],
           [left |-> 1, top |-> 0, width |-> 1, height |-> 4] }

OcrWords == [text : Texts, conf : Confs, geom : Boxes]

SeqsUpTo(S, n) == UNION { [1..k -> S] : k \in 0..n }

ImageSizes == { <<200, 100>>, <<3, 1>> }

Uploads ==
    { [present |-> FALSE, decodable |-> FALSE, size |-> <<0, 0>>],
      [present |-> TRUE, decodable |-> FALSE, size |-> <<0, 0>>] }
    \cup { [present |-> TRUE, decodable |-> TRUE, size |-> s] : s \in ImageSizes }

OcrRequests ==
    [method : {"OPTIONS", "GET", "POST"}, page : Uploads,
     pageNumber : {"", "2", "x"}]

TargetDpis == {72, 150, 300}

\* ------------------------------------- /ocr handler (main.py:26-89)

Idle ==
    /\ image = <<0, 0>>
    /\ data = <<>>
    /\ idx = 0
    /\ doc_pages = <<>>
    /\ elements = <<>>
    /\ page_number = 1
    /\ pages = <<>>
    /\ fields = <<>>
    /\ props = <<>>
    /\ nv = <<>>
    /\ box = [raised |-> FALSE, x0 |-> 0, y0 |-> 0, x1 |-> 0, y1 |-> 0]
    /\ response = NoResponse
    /\ engine_words = 0

InitOcr ==
    /\ Idle
    /\ TARGET_DPI \in TargetDpis
    /\ request \in OcrRequests
    /\ pc = "ocr"

OcrOptions ==
    /\ pc = "ocr"
    /\ request.method = "OPTIONS"
    /\ response' = [status |-> 204, body |-> <<>>]
    /\ pc' = "done"
    /\ UNCHANGED <<TARGET_DPI, request, image, data, idx, doc_pages, elements,
                   page_number, pages, fields, props, nv, box, engine_words>>

OcrGet ==
    /\ pc = "ocr"
    /\ request.method = "GET"
    /\ response' = [status |-> 200, body |-> <<>>]
    /\ pc' = "done"
    /\ UNCHANGED <<TARGET_DPI, request, image, data, idx, doc_pages, elements,
                   page_number, pages, fields, props, nv, box, engine_words>>

OcrMissingPage ==
    /\ pc = "ocr"
    /\ request.method = "POST"
    /\ ~request.page.present
    /\ response' = [status |-> 422, body |-> <<>>]
    /\ pc' = "done"
    /\ UNCHANGED <<TARGET_DPI, request, image, data, idx, doc_pages, elements,
                   page_number, pages, fields, props, nv, box, engine_words>>

\* int(request.form.get("pageNumber") or "1")
PageNum(form) == IF form = "" THEN 1 ELSE ParseInt(form)

\* lines 37-42 raise: int() on a non-numeric pageNumber, or Image.open on
\* bytes that are no image.  Nothing catches either.
OcrLoadRaises ==
    /\ pc = "ocr"
    /\ request.method = "POST"
    /\ request.page.present
    /\ request.pageNumber = "x" \/ ~request.page.decodable
    /\ response' = ServerError
    /\ pc' = "done"
    /\ UNCHANGED <<TARGET_DPI, request, image, data, idx, doc_pages, elements,
                   page_number, pages, fields, props, nv, box, engine_words>>

OcrLoad ==
    /\ pc = "ocr"
    /\ request.method = "POST"
    /\ request.page.present
    /\ request.pageNumber # "x"
    /\ request.page.decodable
    /\ image' = request.page.size
    /\ pc' = "resize"
    /\ UNCHANGED <<TARGET_DPI, request, response, data, idx, doc_pages, elements,
                   page_number, pages, fields, props, nv, box, engine_words>>

\* scale = max(1.0, TARGET_DPI / 96.0) as the fraction ScaleNum / CANVAS_DPI
ScaleNum(dpi) == Max2(CANVAS_DPI, dpi)

\* scale > 1.01
Upscales(dpi) == 100 * ScaleNum(dpi) > 101 * CANVAS_DPI

\* int(w0 * scale): int() drops the fraction
Scaled(w0, dpi) == (w0 * ScaleNum(dpi)) \div CANVAS_DPI

OcrResize ==
    /\ pc = "resize"
    /\ image' = IF Upscales(TARGET_DPI)
                THEN <<Scaled(image[1], TARGET_DPI), Scaled(image[2], TARGET_DPI)>>
                ELSE image
    /\ pc' = "engine"
    /\ UNCHANGED <<TARGET_DPI, request, response, data, idx, doc_pages, elements,
                   page_number, pages, fields, props, nv, box, engine_words>>

\* Binarization keeps the buffer's shape; the engine is an external
\* collaborator whose word table is any of the bounded ones.
OcrEngine ==
    /\ pc = "engine"
    /\ \E d \in SeqsUpTo(OcrWords, MaxOcrWords) : data' = d
    /\ pc' = "tokens"
    /\ UNCHANGED <<TARGET_DPI, request, response, image, idx, doc_pages, elements,
                   page_number, pages, fields, props, nv, box, engine_words>>

OcrEngineRaises ==
    /\ pc = "engine"
    /\ response' = ServerError
    /\ pc' = "done"
    /\ UNCHANGED <<TARGET_DPI, request, image, data, idx, doc_pages, elements,
                   page_number, pages, fields, props, nv, box, engine_words>>

\* int(data["conf"][i]) if data["conf"][i] not in ("", "-1") else -1
ConfOf(c) ==
    IF c.isStr /\ c.s \in {"", "-1"} THEN -1
    ELSE IF c.isStr THEN ParseInt(c.s) ELSE c.n

\* the confidence gate of line 72
Gated(txt, conf) == txt = <<>> \/ conf < CONF_GATE

RECURSIVE OcrTokensFrom(_, _, _)
OcrTokensFrom(d, i, page_num) ==
    IF i > Len(d) THEN <<>>
    ELSE LET txt == strip(d[i].text)
             conf == ConfOf(d[i].conf)
             g == d[i].geom
         IN  IF Gated(txt, conf) THEN OcrTokensFrom(d, i + 1, page_num)
             ELSE <<[page |-> page_num, text |-> txt,
                     x0 |-> g.left, y0 |-> g.top,
                     x1 |-> g.left + g.width, y1 |-> g.top + g.height]>>
                  \o OcrTokensFrom(d, i + 1, page_num)

OcrTokens ==
    /\ pc = "tokens"
    /\ response' =
         [status |-> 200,
          body |-> [page |-> PageNum(request.pageNumber),
                    width |-> image[1], height |-> image[2],
                    tokens |-> OcrTokensFrom(data, 1, PageNum(request.pageNumber))]]
    /\ pc' = "done"
    /\ UNCHANGED <<TARGET_DPI, request, image, data, idx, doc_pages, elements,
                   page_number, pages, fields, props, nv, box, engine_words>>

NextOcr ==
    \/ OcrOptions
    \/ OcrGet
    \/ OcrMissingPage
    \/ OcrLoadRaises
    \/ OcrLoad
    \/ OcrResize
    \/ OcrEngine
    \/ OcrEngineRaises
    \/ OcrTokens

SpecOcr == InitOcr /\ [][NextOcr]_vars

\* ------------------------------------------ /docaiify inputs (server.py)

\* (block_num, par_num, line_num) as the engine assigns them
StructKeys == { <<1, 1, 1>>, <<1, 2, 1>> }

\* a word whose text is only whitespace (the engine's rows for blocks,
\* paragraphs and lines are of this kind): line 75 skips it before its key
\* and box are read
BlankWord == [text |-> <<" ">>, key |-> <<1, 1, 1>>, geom |-> CHOOSE b \in Boxes : b.left = 1]

DocWords == [text : Texts \ {<<" ">>}, key : StructKeys, geom : Boxes] \cup {BlankWord}

\* size of the decoded upload (passed through to the page entry)
DocImageSizes == { <<3, 1>> }

DocRequests == { [npages |-> n] : n \in 1..MaxPages }

\* ------------------------------- /docaiify handler (server.py:61-110)

InitDocaiify ==
    /\ Idle
    /\ TARGET_DPI = 300
    /\ request \in DocRequests
    /\ pc = "docaiify"

\* a plausible slip: the group of a key seen again is taken out and put back
\* at the end (by_line[key] = by_line.pop(key) + [i])
SetDefaultAppendMoving(by_line, key, i) ==
    IF \E j \in 1..Len(by_line) : by_line[j].key = key
    THEN LET old == CHOOSE j \in 1..Len(by_line) : by_line[j].key = key
         IN  Append(SelectSeq(by_line, LAMBDA g : g.key # key),
                    [key |-> key, idxs |-> Append(by_line[old].idxs, i)])
    ELSE Append(by_line, [key |-> key, idxs |-> <<i>>])

\* by_line.setdefault(key, []).append(i); a dict keeps insertion order
SetDefaultAppend(by_line, key, i) ==
    IF \E j \in 1..Len(by_line) : by_line[j].key = key
    THEN [j \in 1..Len(by_line) |->
            IF by_line[j].key = key
            THEN [by_line[j] EXCEPT !.idxs = Append(@, i)]
            ELSE by_line[j]]
    ELSE Append(by_line, [key |-> key, idxs |-> <<i>>])

\* the loop of lines 73-77
RECURSIVE ByLineFrom(_, _, _)
ByLineFrom(d, i, by_line) ==
    IF i > Len(d) THEN by_line
    ELSE IF strip(d[i].text) = <<>> THEN ByLineFrom(d, i + 1, by_line)
    ELSE ByLineFrom(d, i + 1, SetDefaultAppend(by_line, d[i].key, i))

ByLine(d) == ByLineFrom(d, 1, <<>>)

RECURSIVE MinOf(_)
MinOf(s) ==
    IF Len(s) = 1 THEN s[1]
    ELSE LET m == MinOf(Tail(s)) IN IF s[1] <= m THEN s[1] ELSE m

RECURSIVE MaxOf(_)
MaxOf(s) ==
    IF Len(s) = 1 THEN s[1]
    ELSE LET m == MaxOf(Tail(s)) IN IF s[1] >= m THEN s[1] ELSE m

\* sep.join(parts)
RECURSIVE Join(_, _)
Join(sep, parts) ==
    IF parts = <<>> THEN <<>>
    ELSE IF Len(parts) = 1 THEN parts[1]
    ELSE parts[1] \o sep \o Join(sep, Tail(parts))

\* a plausible slip: the right edge from the largest left and the largest width
BoxX1Loose(xs, ws) == MaxOf(xs) + MaxOf(ws)

\* max([xs[i] + ws[i] for i in range(len(xs))])
BoxX1(xs, ws) == MaxOf([i \in 1..Len(xs) |-> xs[i] + ws[i]])

\* a plausible slip: the member texts joined without trimming each of them
ContentUntrimmed(d, idxs) ==
    strip(Join(<<" ">>, [j \in 1..Len(idxs) |-> d[idxs[j]].text]))

\* " ".join([(data["text"][i] or "").strip() for i in idxs]).strip()
Content(d, idxs) ==
    strip(Join(<<" ">>, [j \in 1..Len(idxs) |-> strip(d[idxs[j]].text)]))

\* lines 79-92 for one group
Element(d, idxs, page) ==
    LET xs == [j \in 1..Len(idxs) |-> d[idxs[j]].geom.left]
        ys == [j \in 1..Len(idxs) |-> d[idxs[j]].geom.top]
        ws == [j \in 1..Len(idxs) |-> d[idxs[j]].geom.width]
        hs == [j \in 1..Len(idxs) |-> d[idxs[j]].geom.height]
        x0 == MinOf(xs)
        y0 == MinOf(ys)
        x1 == BoxX1(xs, ws)
        y1 == MaxOf([i \in 1..Len(ys) |-> ys[i] + hs[i]])
    IN  [content |-> Content(d, idxs),
         boundingBox |-> [x |-> x0, y |-> y0, width |-> x1 - x0, height |-> y1 - y0],
         page |-> page]

\* the loop of lines 78-92; a group with empty content is skipped
RECURSIVE ElementsFrom(_, _, _, _)
ElementsFrom(d, by_line, j, page) ==
    IF j > Len(by_line) THEN <<>>
    ELSE LET e == Element(d, by_line[j].idxs, page)
         IN  IF e.content = <<>> THEN ElementsFrom(d, by_line, j + 1, page)
             ELSE <<e>> \o ElementsFrom(d, by_line, j + 1, page)

\* one iteration of the loop over the uploads, lines 64-93
DocaiifyPage ==
    /\ pc = "docaiify"
    /\ idx < request.npages
    /\ \E size \in DocImageSizes, d \in SeqsUpTo(DocWords, MaxWords - engine_words) :
         LET els == ElementsFrom(d, ByLine(d), 1, idx + 1)
         IN  /\ image' = size
             /\ data' = d
             /\ engine_words' = engine_words + Len(d)
             /\ elements' = els
             /\ doc_pages' = Append(doc_pages,
                                    [page |-> idx + 1, width |-> size[1],
                                     height |-> size[2], elements |-> els])
    /\ idx' = idx + 1
    /\ UNCHANGED <<TARGET_DPI, request, pc, response, page_number, pages, fields,
                   props, nv, box>>

\* Image.open on bytes that are no image, or the engine failing, raises out of
\* the handler: nothing catches it, and the pages built so far go with it.
DocaiifyPageRaises ==
    /\ pc = "docaiify"
    /\ idx < request.npages
    /\ response' = ServerError
    /\ pc' = "done"
    /\ UNCHANGED <<TARGET_DPI, request, image, data, idx, doc_pages, elements,
                   page_number, pages, fields, props, nv, box, engine_words>>

\* lines 95-110
DocaiifyReturn ==
    /\ pc = "docaiify"
    /\ idx = request.npages
    /\ response' = [status |-> 200,
                    body |-> [npages |-> Len(doc_pages), pages |-> doc_pages]]
    /\ pc' = "done"
    /\ UNCHANGED <<TARGET_DPI, request, image, data, idx, doc_pages, elements,
                   page_number, pages, fields, props, nv, box, engine_words>>

NextDocaiify ==
    \/ DocaiifyPage
    \/ DocaiifyPageRaises
    \/ DocaiifyReturn

SpecDocaiify == InitDocaiify /\ [][NextDocaiify]_vars

\* ------------------------------- _box_from_norm_vertices inputs (server.py)

\* coordinates in tenths; -1 and 12 lie outside [0,1]
Coords == {-1, 2, 12}

Vertex(hasX, x, hasY, y) ==
    [isDict |-> TRUE, hasX |-> hasX, x |-> x, hasY |-> hasY, y |-> y]

\* an entry of the list that is no object (a number, a string, null)
NonDict == [isDict |-> FALSE, hasX |-> FALSE, x |-> 0, hasY |-> FALSE, y |-> 0]

VertexEntries ==
    { Vertex(TRUE, x, TRUE, y) : x \in Coords, y \in Coords }
    \cup { Vertex(FALSE, 0, TRUE, y) : y \in Coords }
    \cup { Vertex(TRUE, x, FALSE, 0) : x \in Coords }
    \cup { Vertex(FALSE, 0, FALSE, 0), NonDict }

\* ---------------------------- _box_from_norm_vertices (server.py:181-186)

\* a plausible slip: a vertex without "x" is left out instead of counting as 0.0
DictEntriesWithX(vs) ==
    SelectSeq(vs, LAMBDA v : v.isDict /\ v.hasX)

\* the vertices whose x enters: [... for v in nv if isinstance(v, dict)]
DictEntries(vs) == SelectSeq(vs, LAMBDA v : v.isDict)

\* float(v.get("x", 0.0))
GetX(v) == IF v.hasX THEN v.x ELSE 0

\* float(v.get("y", 0.0))
GetY(v) == IF v.hasY THEN v.y ELSE 0

BoxRaised == [raised |-> TRUE, x0 |-> 0, y0 |-> 0, x1 |-> 0, y1 |-> 0]

BoxFromNormVertices(vs) ==
    LET ds == DictEntries(vs)
        xs == [i \in 1..Len(ds) |-> GetX(ds[i])]
        ys == [i \in 1..Len(ds) |-> GetY(ds[i])]
    IN  IF xs = <<>> \/ ys = <<>> THEN BoxRaised
        ELSE [raised |-> FALSE, x0 |-> MinOf(xs), y0 |-> MinOf(ys),
              x1 |-> MaxOf(xs), y1 |-> MaxOf(ys)]

InitBox ==
    /\ image = <<0, 0>>
    /\ data = <<>>
    /\ idx = 0
    /\ doc_pages = <<>>
    /\ elements = <<>>
    /\ page_number = 1
    /\ pages = <<>>
    /\ fields = <<>>
    /\ props = <<>>
    /\ box = [raised |-> FALSE, x0 |-> 0, y0 |-> 0, x1 |-> 0, y1 |-> 0]
    /\ response = NoResponse
    /\ engine_words = 0
    /\ TARGET_DPI = 300
    /\ request = [call |-> "_box_from_norm_vertices"]
    /\ nv \in SeqsUpTo(VertexEntries, MaxVerts)
    /\ pc = "box"

BoxReturns ==
    /\ pc = "box"
    /\ ~BoxFromNormVertices(nv).raised
    /\ box' = BoxFromNormVertices(nv)
    /\ pc' = "done"
    /\ UNCHANGED <<TARGET_DPI, request, response, image, data, idx, doc_pages,
                   elements, page_number, pages, fields, props, nv, engine_words>>

\* raise ValueError("empty normalized_vertices")
BoxRaises ==
    /\ pc = "box"
    /\ BoxFromNormVertices(nv).raised
    /\ box' = BoxRaised
    /\ pc' = "done"
    /\ UNCHANGED <<TARGET_DPI, request, response, image, data, idx, doc_pages,
                   elements, page_number, pages, fields, props, nv, engine_words>>

NextBox ==
    \/ BoxReturns
    \/ BoxRaises

SpecBox == InitBox /\ [][NextBox]_vars

\* ------------------------------------ /normalize-docai inputs (server.py)

MetaKeys == {"metadata", "metaData", "meta_data", "_metadata"}

FieldNames == {"f", "g"}

PyInt(n) == [tag |-> "int", n |-> n, s |-> ""]
PyStr(s) == [tag |-> "str", n |-> 0, s |-> s]
PyNone == [tag |-> "none", n |-> 0, s |-> ""]

\* str(v)
Str(v) ==
    CASE v.tag = "str" -> v.s
      [] v.tag = "none" -> "None"
      [] v.tag = "int" /\ v.n = 5 -> "5"
      [] v.tag = "int" /\ v.n = 7 -> "7"

\* a property value that is no object
Scalar(v) == [isDict |-> FALSE, value |-> v, hasPoly |-> FALSE, nv |-> <<>>]

\* {"value": v}
Plain(v) == [isDict |-> TRUE, value |-> v, hasPoly |-> FALSE, nv |-> <<>>]

\* {"value": v, "bounding_poly": {"normalized_vertices": vs}}
WithPoly(v, vs) == [isDict |-> TRUE, value |-> v, hasPoly |-> TRUE, nv |-> vs]

PropValues ==
    { Scalar(PyInt(5)),
      Plain(PyStr("A")),
      Plain(PyInt(7)),
      WithPoly(PyInt(7), <<Vertex(TRUE, 2, TRUE, 3), Vertex(TRUE, 4, FALSE, 0)>>),
      WithPoly(PyNone, <<>>),
      WithPoly(PyStr("A"), <<NonDict>>) }

\* pageInfo of a metadata property; 0 and "" stand for an absent member
PageInfos ==
    { [page_number |-> 2, width |-> 8, height |-> 9, unit |-> ""],
      [page_number |-> 0, width |-> 8, height |-> 0, unit |-> "pt"] }

NoPageInfo == [page_number |-> 0, width |-> 0, height |-> 0, unit |-> ""]

\* a properties entry as the handler meets it: the key its metadata is filed
\* under ("" for none) with that metadata's pageInfo, and the items iterated
EntryHeads ==
    { [metaKey |-> "", info |-> NoPageInfo, items |-> <<>>] }
    \cup { [metaKey |-> k, info |-> i, items |-> <<>>] : k \in MetaKeys, i \in PageInfos }

NormRequests == { [json |-> j] : j \in {"invalid", "nodocuments", "documents"} }

\* ------------------------ /normalize-docai handler (server.py:188-232)

InitNormalize ==
    /\ Idle
    /\ TARGET_DPI = 300
    /\ request \in NormRequests
    /\ pc = "normalize"

\* request.get_json(force=True, silent=True) is None
NormInvalidJson ==
    /\ pc = "normalize"
    /\ request.json = "invalid"
    /\ response' = [status |-> 400, body |-> <<>>]
    /\ pc' = "done"
    /\ UNCHANGED <<TARGET_DPI, request, image, data, idx, doc_pages, elements,
                   page_number, pages, fields, props, nv, box, engine_words>>

\* not documents
NormMissingDocuments ==
    /\ pc = "normalize"
    /\ request.json = "nodocuments"
    /\ response' = [status |-> 400, body |-> <<>>]
    /\ pc' = "done"
    /\ UNCHANGED <<TARGET_DPI, request, image, data, idx, doc_pages, elements,
                   page_number, pages, fields, props, nv, box, engine_words>>

Keys(items) == { items[j].k : j \in 1..Len(items) }

\* every key of the entry being iterated has been visited
EntryDone ==
    IF props = <<>> THEN TRUE
    ELSE LET cur == props[Len(props)]
         IN  cur.metaKey \in {""} \cup Keys(cur.items)

\* props.get("metadata") ... pinfo: only this spelling is looked up
PInfo(entry) == IF entry.metaKey = "metadata" THEN entry.info ELSE NoPageInfo

\* int(pinfo.get("page_number") or 1)
PageNumberOf(pinfo) == IF pinfo.page_number = 0 THEN 1 ELSE pinfo.page_number

\* dim.get("unit") or "pixels"
UnitOf(pinfo) == IF pinfo.unit = "" THEN "pixels" ELSE pinfo.unit

\* lines 203-213: the next properties entry (of this or the next document)
NormEntry ==
    /\ pc = "normalize"
    /\ request.json = "documents"
    /\ EntryDone
    /\ Len(props) < MaxEntries
    /\ \E e \in EntryHeads :
         LET pinfo == PInfo(e)
         IN  /\ props' = Append(props, e)
             /\ page_number' = PageNumberOf(pinfo)
             /\ pages' = IF pinfo.width # 0 /\ pinfo.height # 0
                         THEN Append(pages,
                                     [page_number |-> PageNumberOf(pinfo),
                                      width |-> pinfo.width, height |-> pinfo.height,
                                      unit |-> UnitOf(pinfo)])
                         ELSE pages
    /\ UNCHANGED <<TARGET_DPI, request, pc, response, image, data, idx, doc_pages,
                   elements, fields, nv, box, engine_words>>

Visit(k, v) ==
    [props EXCEPT ![Len(props)].items = Append(@, [k |-> k, v |-> v])]

\* lines 216-217: the key is one of the four metadata spellings
NormSkipMetadata ==
    /\ pc = "normalize"
    /\ props # <<>>
    /\ ~EntryDone
    /\ LET cur == props[Len(props)]
       IN  /\ cur.metaKey \in {"metadata", "metaData", "meta_data", "_metadata"}
           /\ props' = Visit(cur.metaKey, Plain(PyNone))
    /\ UNCHANGED <<TARGET_DPI, request, pc, response, image, data, idx, doc_pages,
                   elements, page_number, pages, fields, nv, box, engine_words>>

NullBox == [null |-> TRUE, page |-> 0, x0 |-> 0, y0 |-> 0, x1 |-> 0, y1 |-> 0]

\* isinstance(nv, list) and nv
TakesPolygon(v) == v.hasPoly /\ v.nv # <<>>

\* v.get("value") if it is a str or None, else str(v.get("value"))
BoxedValue(v) ==
    IF v.value.tag \in {"str", "none"} THEN v.value ELSE PyStr(Str(v.value))

\* lines 218-230 for one key/value of the entry
Field(k, v, page) ==
    IF ~v.isDict THEN [name |-> k, value |-> PyStr(Str(v.value)), norm_box |-> NullBox]
    ELSE IF TakesPolygon(v)
    THEN LET b == BoxFromNormVertices(v.nv)
         IN  [name |-> k, value |-> BoxedValue(v),
              norm_box |-> [null |-> FALSE, page |-> page, x0 |-> b.x0,
                            y0 |-> b.y0, x1 |-> b.x1, y1 |-> b.y1]]
    ELSE [name |-> k, value |-> v.value, norm_box |-> NullBox]

\* _box_from_norm_vertices raises out of the handler
Raises(v) == v.isDict /\ TakesPolygon(v) /\ BoxFromNormVertices(v.nv).raised

NormItem ==
    /\ pc = "normalize"
    /\ props # <<>>
    /\ Len(fields) < MaxItems
    /\ \E k \in FieldNames \ Keys(props[Len(props)].items), v \in PropValues :
         /\ ~Raises(v)
         /\ props' = Visit(k, v)
         /\ fields' = Append(fields, Field(k, v, page_number))
    /\ UNCHANGED <<TARGET_DPI, request, pc, response, image, data, idx, doc_pages,
                   elements, page_number, pages, nv, box, engine_words>>

\* the same key/value when _box_from_norm_vertices raises: Flask answers 500
NormItemRaises ==
    /\ pc = "normalize"
    /\ props # <<>>
    /\ Len(fields) < MaxItems
    /\ \E k \in FieldNames \ Keys(props[Len(props)].items), v \in PropValues :
         /\ Raises(v)
         /\ props' = Visit(k, v)
    /\ response' = ServerError
    /\ pc' = "done"
    /\ UNCHANGED <<TARGET_DPI, request, image, data, idx, doc_pages, elements,
                   page_number, pages, fields, nv, box, engine_words>>

\* line 232
NormReturn ==
    /\ pc = "normalize"
    /\ request.json = "documents"
    /\ EntryDone
    /\ response' = [status |-> 200, body |-> [pages |-> pages, fields |-> fields]]
    /\ pc' = "done"
    /\ UNCHANGED <<TARGET_DPI, request, image, data, idx, doc_pages, elements,
                   page_number, pages, fields, props, nv, box, engine_words>>

NextNormalize ==
    \/ NormInvalidJson
    \/ NormMissingDocuments
    \/ NormEntry
    \/ NormSkipMetadata
    \/ NormItem
    \/ NormItemRaises
    \/ NormReturn

SpecNormalize == InitNormalize /\ [][NextNormalize]_vars

\* ------------------------------------------------------------- properties

\* the confidence column holds the "unavailable" sentinel
Unavailable(c) == (c.isStr /\ c.s \in {"", "-1"}) \/ (~c.isStr /\ c.n = -1)

\* a word the token endpoint is to keep: non-empty trimmed text, and a
\* confidence that is unavailable or at least 50
Retained(w) ==
    /\ strip(w.text) # <<>>
    /\ \/ Unavailable(w.conf)
       \/ (IF w.conf.isStr THEN ParseInt(w.conf.s) ELSE w.conf.n) >= 50

RECURSIVE RetainedTokens(_, _)
RetainedTokens(d, page_num) ==
    IF d = <<>> THEN <<>>
    ELSE (IF Retained(Head(d))
          THEN <<[page |-> page_num, text |-> strip(Head(d).text),
                  x0 |-> Head(d).geom.left, y0 |-> Head(d).geom.top,
                  x1 |-> Head(d).geom.left + Head(d).geom.width,
                  y1 |-> Head(d).geom.top + Head(d).geom.height]>>
          ELSE <<>>)
         \o RetainedTokens(Tail(d), page_num)

\* C1: the tokens /ocr returns are exactly, in the engine's order, the words
\* whose trimmed text is non-empty and whose confidence is the sentinel or at
\* least 50; a non-empty word with sentinel confidence is kept.
C1_TokensAreRetainedWords ==
    (pc = "done" /\ request.method = "POST" /\ response.status = 200)
        => response.body.tokens = RetainedTokens(data, PageNum(request.pageNumber))

\* the words of d that make up the element of a structural key
Members(d, key) ==
    { i \in 1..Len(d) : strip(d[i].text) # <<>> /\ d[i].key = key }

WordKeys(d) == { d[i].key : i \in { j \in 1..Len(d) : strip(d[j].text) # <<>> } }

\* the trimmed texts ts, in order, with one space between neighbours
RECURSIVE Spaced(_)
Spaced(ts) ==
    IF ts = <<>> THEN <<>>
    ELSE IF Len(ts) = 1 THEN strip(ts[1])
    ELSE Spaced(SubSeq(ts, 1, Len(ts) - 1)) \o <<" ">> \o strip(ts[Len(ts)])

RECURSIVE TextsOf(_, _)
TextsOf(d, key) ==
    IF d = <<>> THEN <<>>
    ELSE (IF strip(Head(d).text) # <<>> /\ Head(d).key = key
          THEN <<Head(d).text>> ELSE <<>>)
         \o TextsOf(Tail(d), key)

ExpectedContent(d, key) == Spaced(TextsOf(d, key))

\* b is the tight union of the boxes of the words M of d
TightUnion(b, d, M) ==
    /\ \E i \in M : b.x = d[i].geom.left
    /\ \A i \in M : b.x <= d[i].geom.left
    /\ \E i \in M : b.y = d[i].geom.top
    /\ \A i \in M : b.y <= d[i].geom.top
    /\ \E i \in M : b.x + b.width = d[i].geom.left + d[i].geom.width
    /\ \A i \in M : b.x + b.width >= d[i].geom.left + d[i].geom.width
    /\ \E i \in M : b.y + b.height = d[i].geom.top + d[i].geom.height
    /\ \A i \in M : b.y + b.height >= d[i].geom.top + d[i].geom.height
    /\ b.width >= 0
    /\ b.height >= 0

\* the elements of the page docaiify built last
LastElements == doc_pages[Len(doc_pages)].elements

\* C2: every Element docaiify emits is the element of one structural key of
\* the page, and its boundingBox is the tight union of that key's member
\* words: x = min left, y = min top, x+width = max right, y+height = max
\* bottom, so width and height are >= 0 and every member's box is inside.
C2_ElementBoxIsTightUnion ==
    doc_pages # <<>> =>
        \A j \in 1..Len(LastElements) :
            \E key \in WordKeys(data) :
                /\ LastElements[j].content = ExpectedContent(data, key)
                /\ TightUnion(LastElements[j].boundingBox, data, Members(data, key))

\* an element of two member words whose box is neither member's own box
C2_Witness ==
    /\ doc_pages # <<>>
    /\ \E j \in 1..Len(LastElements) :
         /\ LastElements[j].boundingBox = [x |-> 0, y |-> 0, width |-> 3, height |-> 4]
         /\ \E key \in WordKeys(data) : Cardinality(Members(data, key)) >= 2

\* C3: for every structural key of the page there is an Element whose content
\* is the trimmed texts of all tokens of that key, in input order, joined by
\* exactly one space, also when tokens of another key lie between them; and
\* there are as many Elements as keys.
C3_ContentIsSpacedMemberTexts ==
    doc_pages # <<>> =>
        /\ Len(LastElements) = Cardinality(WordKeys(data))
        /\ \A key \in WordKeys(data) :
             \E j \in 1..Len(LastElements) :
                LastElements[j].content = ExpectedContent(data, key)

\* tokens "a" and " b " of one key with a token of another key between them
C3_Witness ==
    /\ doc_pages # <<>>
    /\ Len(data) = 3
    /\ data[1].text = <<"a">>
    /\ data[3].text = <<" ", "b", " ">>
    /\ data[1].key = data[3].key
    /\ data[2].key # data[1].key
    /\ strip(data[2].text) # <<>>
    /\ \E j \in 1..Len(LastElements) : LastElements[j].content = <<"a", " ", "b">>

\* C4: for a non-empty list of vertex objects, polygon-to-box returns
\* (min x, min y, max x, max y) with 0.0 for a missing component, so
\* x0 <= x1 and y0 <= y1, and values outside [0,1] come back unclamped.
C4_BoxIsMinMax ==
    (pc = "done" /\ request.call = "_box_from_norm_vertices"
       /\ nv # <<>> /\ \A i \in 1..Len(nv) : nv[i].isDict)
    => LET X(i) == IF nv[i].hasX THEN nv[i].x ELSE 0
           Y(i) == IF nv[i].hasY THEN nv[i].y ELSE 0
           I == 1..Len(nv)
       IN  /\ ~box.raised
           /\ \E i \in I : box.x0 = X(i)
           /\ \A i \in I : box.x0 <= X(i)
           /\ \E i \in I : box.y0 = Y(i)
           /\ \A i \in I : box.y0 <= Y(i)
           /\ \E i \in I : box.x1 = X(i)
           /\ \A i \in I : box.x1 >= X(i)
           /\ \E i \in I : box.y1 = Y(i)
           /\ \A i \in I : box.y1 >= Y(i)
           /\ box.x0 <= box.x1
           /\ box.y0 <= box.y1

\* two vertices, one without x: the 0.0 it contributes is the minimum, and
\* 1.2 and -0.1 come back as they are
C4_Witness ==
    /\ pc = "done"
    /\ Len(nv) = 2
    /\ \A i \in 1..2 : nv[i].isDict
    /\ \E i \in 1..2 : ~nv[i].hasX
    /\ ~box.raised
    /\ box.x0 = 0
    /\ box.x1 = 12
    /\ box.y0 = -1

\* the key/value items of the request that are no metadata, in iteration order
RECURSIVE FieldItems(_)
FieldItems(entries) ==
    IF entries = <<>> THEN <<>>
    ELSE SelectSeq(Head(entries).items, LAMBDA it : it.k \notin MetaKeys)
         \o FieldItems(Tail(entries))

\* the property carries a polygon that has no vertex
EmptyPolygon(v) == v.isDict /\ v.hasPoly /\ \A i \in 1..Len(v.nv) : ~v.nv[i].isDict

\* C5: a normalize request in which a property carries an empty or
\* vertex-less normalized_vertices polygon is rejected with a 4xx answer,
\* never answered successfully and never left to an unhandled exception.
C5_EmptyPolygonIsRejected ==
    (pc = "done" /\ request.json = "documents"
       /\ \E j \in 1..Len(FieldItems(props)) : EmptyPolygon(FieldItems(props)[j].v))
    => response.status \in 400..499

\* C6: flattening emits one Field per non-metadata property, in iteration
\* order: a scalar yields its string and no box; an object with a polygon
\* yields the polygon's box; an object without one yields its raw value and
\* no box; norm_box is non-null exactly when the polygon is present.
C6_OneFieldPerProperty ==
    (pc = "done" /\ request.json = "documents" /\ response.status = 200)
    => LET its == FieldItems(props)
           fs == response.body.fields
       IN  /\ Len(fs) = Len(its)
           /\ \A j \in 1..Len(its) :
                LET v == its[j].v
                    f == fs[j]
                IN  /\ f.name = its[j].k
                    /\ ~f.norm_box.null <=> (v.isDict /\ v.hasPoly)
                    /\ ~v.isDict => f.value = PyStr(Str(v.value))
                    /\ (v.isDict /\ ~v.hasPoly) => f.value = v.value
                    /\ (v.isDict /\ v.hasPoly) =>
                         LET b == BoxFromNormVertices(v.nv)
                         IN  /\ ~b.raised
                             /\ f.norm_box.x0 = b.x0 /\ f.norm_box.y0 = b.y0
                             /\ f.norm_box.x1 = b.x1 /\ f.norm_box.y1 = b.y1

\* C7: under each of the four metadata spellings the entry's pageInfo goes
\* to the pages output and is the page tag of the entry's norm_boxes, and
\* the key is never a Field.
C7_EverySpellingIsMetadata ==
    (props # <<>> /\ props[Len(props)].metaKey \in MetaKeys)
    => LET info == props[Len(props)].info
           page == IF info.page_number = 0 THEN 1 ELSE info.page_number
       IN  /\ page_number = page
           /\ (info.width # 0 /\ info.height # 0) =>
                /\ pages # <<>>
                /\ pages[Len(pages)] =
                     [page_number |-> page, width |-> info.width,
                      height |-> info.height,
                      unit |-> IF info.unit = "" THEN "pixels" ELSE info.unit]
           /\ \A j \in 1..Len(fields) :
                /\ fields[j].name \notin MetaKeys
                /\ (Len(props) = 1 /\ ~fields[j].norm_box.null)
                      => fields[j].norm_box.page = page

\* n / d rounded to the nearest integer, halves up
Round(n, d) == (2 * n + d) \div (2 * d)

\* C8: when /ocr upscales (TARGET_DPI/96 > 1.01) the reported width and
\* height are round(original * scale): 200x100 at 300 DPI gives 625x313.
C8_UpscaledSizeIsRounded ==
    (pc = "done" /\ request.method = "POST" /\ response.status = 200
       /\ 100 * TARGET_DPI > 101 * 96)
    => /\ response.body.width = Round(request.page.size[1] * TARGET_DPI, 96)
       /\ response.body.height = Round(request.page.size[2] * TARGET_DPI, 96)

\* C9: an /ocr request whose 'page' bytes are no image ends in a 4xx
\* rejection, as a request without 'page' does.
C9_UndecodableIsRejected ==
    (pc = "done" /\ request.method = "POST" /\ request.page.present
       /\ ~request.page.decodable)
    => response.status \in 400..499

\* C10: in a multi-page docaiify request the pages that succeeded are in the
\* response with their elements, whatever happened to another page.
C10_SucceededPagesAreReturned ==
    (pc = "done" /\ doc_pages # <<>>)
    => /\ response.status = 200
       /\ \A j \in 1..Len(doc_pages) :
            \E k \in 1..Len(response.body.pages) :
                response.body.pages[k] = doc_pages[j]

\* the place in d of the first word of a structural key
FirstWord(d, key) ==
    CHOOSE i \in Members(d, key) : \A k \in Members(d, key) : i <= k

\* the key whose first word is the j-th among the first words of all keys
KeyInReadingOrder(d, j) ==
    CHOOSE key \in WordKeys(d) :
        Cardinality({ other \in WordKeys(d) :
                        FirstWord(d, other) <= FirstWord(d, key) }) = j

\* C11: the grouper partitions the non-empty words of a page by (block,
\* paragraph, line) and emits exactly one Element per distinct key, in the
\* order in which each key's first word occurs; a later word of a key seen
\* before does not move that key's Element, and no Element is empty.
C11_ElementsInFirstSeenOrder ==
    doc_pages # <<>> =>
        /\ Len(LastElements) = Cardinality(WordKeys(data))
        /\ \A j \in 1..Len(LastElements) :
             LET key == KeyInReadingOrder(data, j)
             IN  /\ LastElements[j].content = ExpectedContent(data, key)
                 /\ TightUnion(LastElements[j].boundingBox, data, Members(data, key))
                 /\ LastElements[j].content # <<>>

\* three non-empty words keyed A, B, A: the Element of A stays first although
\* its last word comes after the word of B
C11_Witness ==
    /\ doc_pages # <<>>
    /\ Len(data) = 3
    /\ \A i \in 1..3 : strip(data[i].text) # <<>>
    /\ data[1].key = data[3].key
    /\ data[2].key # data[1].key
    /\ Len(LastElements) = 2
    /\ LastElements[1].content = <<"a", " ", "b">>
    /\ LastElements[2].content = <<"a">>

====
